---- MODULE Spec2Model ----
(***************************************************************************)
(* Model of api/views.py of YamDb: the confirmation-code flow              *)
(* (send_confirmation_code, get_jwt_token), the /me endpoint (APIUser)     *)
(* and the comments of a review (CommentViewSet).                          *)
(*                                                                         *)
(* Four specifications share the variables:                                *)
(*   Spec         the confirmation-code flow, one request at a time        *)
(*   SpecMe       the /me endpoint, one request at a time                  *)
(*   SpecConc     send_confirmation_code runs statement by statement in    *)
(*                two workers whose steps interleave                       *)
(*   SpecComments titles, reviews and comments                             *)
(***************************************************************************)
EXTENDS Integers, Sequences, FiniteSets, TLC

\* ------------------------------------------------------------------ bounds
NumEmails == 2
NumCodes == 2
NumBios == 1
MaxMails == 2
MaxTitles == 2
MaxReviews == 2
MaxComments == 1

\* ------------------------------------------------------------ input domains
\* A well-formed address is a positive number; the two other values are the
\* request bodies the serializer rejects (or, for a partial update, skips).
MissingEmail == 0
MalformedEmail == -1
Emails == 1..NumEmails
EmailInputs == Emails \cup {MissingEmail, MalformedEmail}

\* uuid.uuid4() values, as the text that is mailed and later submitted.
MissingCode == 0
Codes == 1..NumCodes
CodeInputs == Codes \cup {MissingCode}

BlankBio == 0
InvalidBio == -1
Bios == 1..NumBios
BioInputs == Bios \cup {BlankBio, InvalidBio}

\* request.user of a request without credentials.
Anonymous == 0

\* The workers that serve send_confirmation_code concurrently.
Procs == {1, 2}

\* -------------------------------------------------------------------- state
VARIABLES
    users,       \* the User table: row i is the user with id i
    mail_count,  \* how many messages send_mail has delivered
    last_mail,   \* the last message send_mail delivered
    resp,        \* the response to the last request
    pc,          \* SpecConc: the statement each worker is at
    loc,         \* SpecConc: each worker's local variables
    titles,      \* SpecComments: the ids of the Title rows
    reviews,     \* SpecComments: the Review table, row i has id i
    comments     \* SpecComments: the Comment table, row i has id i

vars == <<users, mail_count, last_mail, resp, pc, loc, titles, reviews, comments>>
authvars == <<users, mail_count, last_mail>>
concvars == <<pc, loc>>
contentvars == <<titles, reviews, comments>>

\* ------------------------------------------------------- password hashers
\* The stored form of a confirmation code. The salt make_password draws is
\* left out: check_password re-derives the digest with the stored salt, so
\* the digest below stands for the salted one.
BlankCode == [hasher |-> "", digest |-> 0]

\* Injective, as a cryptographic hash is taken to be, and not the identity.
\* send_confirmation_code passes the UUID object itself; the hasher encodes
\* its text form, the same text that is mailed and later submitted.
Digest(password) == 2 * password + 1

make_password(password) == [hasher |-> "default", digest |-> Digest(password)]

check_password_any(password, encoded) == encoded.hasher = "default"

\* False for an unusable (blank) stored value; otherwise hash and compare.
check_password(password, encoded) ==
    /\ encoded.hasher = "default"
    /\ Digest(password) = encoded.digest

\* ------------------------------------------------------------------ the ORM
\* User.objects.filter(email=email): the ids of the matching rows.
FilterEmail(us, email) == {i \in DOMAIN us : us[i].email = email}

\* User.objects.create_user(email=email): a new row with the next id.
create_user(us, email) ==
    Append(us, [email |-> email, confirmation_code |-> BlankCode, bio |-> BlankBio])

update_all(us, email, encoded) ==
    [i \in DOMAIN us |-> [us[i] EXCEPT !.confirmation_code = encoded]]

update_if_blank(us, email, encoded) ==
    [i \in DOMAIN us |->
        IF us[i].email = email /\ us[i].confirmation_code = BlankCode
        THEN [us[i] EXCEPT !.confirmation_code = encoded]
        ELSE us[i]]

\* User.objects.filter(email=email).update(confirmation_code=encoded)
update(us, email, encoded) ==
    [i \in DOMAIN us |->
        IF us[i].email = email
        THEN [us[i] EXCEPT !.confirmation_code = encoded]
        ELSE us[i]]

\* ------------------------------------------------------------- serializers
\* SendCodeSerializer: a required, well-formed email.
SendCodeSerializer_is_valid(data) == data.email \in Emails

\* CheckConfirmationCodeSerializer: a required email and a required code.
CheckConfirmationCodeSerializer_is_valid(data) ==
    data.email \in Emails /\ data.confirmation_code \in Codes

\* UserSerializer(user, data, partial=True): absent fields are skipped, a
\* present field must be well-formed, and an email must not be another
\* user's.
UserSerializer_is_valid(us, id, data) ==
    /\ data.bio # InvalidBio
    /\ data.email # MalformedEmail
    /\ data.email \in Emails => FilterEmail(us, data.email) \subseteq {id}

\* serializer.save(): the present fields are written to the instance.
UserSerializer_save(us, id, data) ==
    [us EXCEPT ![id] = [@ EXCEPT
        !.bio = IF data.bio \in Bios THEN data.bio ELSE @,
        !.email = IF data.email \in Emails THEN data.email ELSE @]]

\* serializer.data of a user.
UserSerializer_data(us, id) == [id |-> id, email |-> us[id].email, bio |-> us[id].bio]

\* ---------------------------------------------------------------- responses
NoToken == <<>>
NoMail == [to |-> MissingEmail, code |-> MissingCode]

Response(op, status, ret, req, out) ==
    [op |-> op, status |-> status, ret |-> ret, req |-> req, out |-> out]

NoResponse == Response("none", 0, 0, <<>>, <<>>)

\* ------------------------------------------------- send_confirmation_code
\* Lines 123-143, the body of `if serializer.is_valid()`: the table, the
\* outbox and the response the handler ends with. mail_ok is whether
\* send_mail returns (it raises on a transport error).
SendCodeBody_mail_first(us, n, last, data, code, mail_ok) ==
    LET email == data.email
        created == IF FilterEmail(us, email) # {} THEN us ELSE create_user(us, email)
        stored == update(created, email, make_password(code))
        req == [email |-> email, code |-> code]
    IN  IF mail_ok
        THEN [users |-> stored, mail_count |-> n + 1,
              last_mail |-> [to |-> email, code |-> code],
              resp |-> Response("send_confirmation_code", 200, 140, req, <<>>)]
        ELSE [users |-> us, mail_count |-> n, last_mail |-> last,
              resp |-> Response("send_confirmation_code", 500, 138, req, <<>>)]

SendCodeBody(us, n, last, data, code, mail_ok) ==
    LET email == data.email
        created == IF FilterEmail(us, email) # {} THEN us ELSE create_user(us, email)
        stored == update(created, email, make_password(code))
        req == [email |-> email, code |-> code]
    IN  IF mail_ok
        THEN [users |-> stored, mail_count |-> n + 1,
              last_mail |-> [to |-> email, code |-> code],
              resp |-> Response("send_confirmation_code", 200, 140, req, <<>>)]
        ELSE \* send_mail raised: the rows written above stay
             [users |-> stored, mail_count |-> n, last_mail |-> last,
              resp |-> Response("send_confirmation_code", 500, 138, req, <<>>)]

SendCodeResult_no_raise(us, n, last, data, code, mail_ok) ==
    IF SendCodeSerializer_is_valid(data)
    THEN SendCodeBody(us, n, last, data, code, mail_ok)
    ELSE [users |-> us, mail_count |-> n, last_mail |-> last,
          resp |-> Response("send_confirmation_code", 400, 145,
                            [email |-> data.email, code |-> MissingCode], <<>>)]

\* Lines 118-148.
SendCodeResult(us, n, last, data, code, mail_ok) ==
    IF ~SendCodeSerializer_is_valid(data)
    THEN \* is_valid(raise_exception=True) raised ValidationError
         [users |-> us, mail_count |-> n, last_mail |-> last,
          resp |-> Response("send_confirmation_code", 400, 119,
                            [email |-> data.email, code |-> MissingCode], <<>>)]
    ELSE IF SendCodeSerializer_is_valid(data)
         THEN SendCodeBody(us, n, last, data, code, mail_ok)
         ELSE [users |-> us, mail_count |-> n, last_mail |-> last,
               resp |-> Response("send_confirmation_code", 400, 145,
                                 [email |-> data.email, code |-> MissingCode], <<>>)]

SendConfirmationCode(data, code, mail_ok) ==
    /\ mail_count < MaxMails
    /\ LET r == SendCodeResult(users, mail_count, last_mail, data, code, mail_ok)
       IN  /\ users' = r.users
           /\ mail_count' = r.mail_count
           /\ last_mail' = r.last_mail
           /\ resp' = r.resp
    /\ UNCHANGED <<concvars, contentvars>>

\* ------------------------------------------------------------ get_jwt_token
GetJwtResult_lockout(us, data) ==
    LET req == [email |-> data.email, code |-> data.confirmation_code]
        found == FilterEmail(us, data.email)
    IN  IF ~CheckConfirmationCodeSerializer_is_valid(data)
        THEN [users |-> us, resp |-> Response("get_jwt_token", 400, 172, req, NoToken)]
        ELSE IF found = {}
        THEN [users |-> us, resp |-> Response("get_jwt_token", 404, 158, req, NoToken)]
        ELSE IF Cardinality(found) > 1
        THEN [users |-> us, resp |-> Response("get_jwt_token", 500, 158, req, NoToken)]
        ELSE LET id == CHOOSE i \in found : TRUE
             IN  IF check_password(data.confirmation_code, us[id].confirmation_code)
                 THEN [users |-> us,
                       resp |-> Response("get_jwt_token", 200, 162, req, [user_id |-> id])]
                 ELSE [users |-> update(us, data.email, BlankCode),
                       resp |-> Response("get_jwt_token", 400, 167, req, NoToken)]

\* Lines 153-175: the table and the response the handler ends with.
GetJwtResult(us, data) ==
    LET req == [email |-> data.email, code |-> data.confirmation_code]
        found == FilterEmail(us, data.email)
    IN  IF ~CheckConfirmationCodeSerializer_is_valid(data)
        THEN [users |-> us, resp |-> Response("get_jwt_token", 400, 172, req, NoToken)]
        ELSE IF found = {}
        THEN \* get_object_or_404 raised Http404
             [users |-> us, resp |-> Response("get_jwt_token", 404, 158, req, NoToken)]
        ELSE IF Cardinality(found) > 1
        THEN \* get_object_or_404 lets MultipleObjectsReturned through
             [users |-> us, resp |-> Response("get_jwt_token", 500, 158, req, NoToken)]
        ELSE LET id == CHOOSE i \in found : TRUE
             IN  IF check_password(data.confirmation_code, us[id].confirmation_code)
                 THEN \* AccessToken.for_user(user)
                      [users |-> us,
                       resp |-> Response("get_jwt_token", 200, 162, req, [user_id |-> id])]
                 ELSE [users |-> us,
                       resp |-> Response("get_jwt_token", 400, 167, req, NoToken)]

GetJwtToken(data) ==
    /\ LET r == GetJwtResult(users, data)
       IN  /\ users' = r.users
           /\ resp' = r.resp
    /\ UNCHANGED <<mail_count, last_mail, concvars, contentvars>>

\* ------------------------------------------------------------------ APIUser
\* Lines 191-200. user is request.user: a user id, or Anonymous.
APIUserGet(user) ==
    /\ resp' = IF user # Anonymous
               THEN Response("me_get", 200, 195, [user |-> user],
                             UserSerializer_data(users, user))
               ELSE Response("me_get", 401, 197, [user |-> user], <<>>)
    /\ UNCHANGED <<users, mail_count, last_mail, concvars, contentvars>>

PatchResult_save_invalid(us, user, data) ==
    LET req == [user |-> user, data |-> data]
    IN  IF user = Anonymous
        THEN [users |-> us, resp |-> Response("me_patch", 401, 222, req, <<>>)]
        ELSE IF UserSerializer_is_valid(us, user, data)
        THEN LET saved == UserSerializer_save(us, user, data)
             IN  [users |-> saved,
                  resp |-> Response("me_patch", 200, 212, req,
                                    UserSerializer_data(saved, user))]
        ELSE [users |-> UserSerializer_save(us, user, data),
              resp |-> Response("me_patch", 400, 217, req, <<>>)]

\* Lines 205-225: the table and the response the handler ends with.
PatchResult(us, user, data) ==
    LET req == [user |-> user, data |-> data]
    IN  IF user = Anonymous
        THEN [users |-> us, resp |-> Response("me_patch", 401, 222, req, <<>>)]
        ELSE IF UserSerializer_is_valid(us, user, data)
        THEN LET saved == UserSerializer_save(us, user, data)
             IN  [users |-> saved,
                  resp |-> Response("me_patch", 200, 212, req,
                                    UserSerializer_data(saved, user))]
        ELSE [users |-> us, resp |-> Response("me_patch", 400, 217, req, <<>>)]

APIUserPatch(user, data) ==
    /\ LET r == PatchResult(users, user, data)
       IN  /\ users' = r.users
           /\ resp' = r.resp
    /\ UNCHANGED <<mail_count, last_mail, concvars, contentvars>>

\* ------------------------- send_confirmation_code, statement by statement
\* A worker's local variables: the validated email, the uuid4 it drew, what
\* exists() answered, and the response it ended with (0: none yet).
NoRequest ==
    [email |-> MissingEmail, code |-> MissingCode, user |-> FALSE, status |-> 0, ret |-> 0]

Finish(p, status, ret) ==
    /\ pc' = [pc EXCEPT ![p] = "done"]
    /\ loc' = [loc EXCEPT ![p].status = status, ![p].ret = ret]

\* Lines 118-123: validate the request and draw the code.
ConcStart(p, data, code) ==
    /\ pc[p] = "idle"
    /\ IF ~SendCodeSerializer_is_valid(data)
       THEN /\ pc' = [pc EXCEPT ![p] = "done"]
            /\ loc' = [loc EXCEPT ![p] = [NoRequest EXCEPT
                          !.email = data.email, !.status = 400, !.ret = 119]]
       ELSE /\ pc' = [pc EXCEPT ![p] = "exists"]
            /\ loc' = [loc EXCEPT ![p] = [NoRequest EXCEPT
                          !.email = data.email, !.code = code]]
    /\ UNCHANGED <<users, mail_count, last_mail, resp, contentvars>>

\* Line 124: user = User.objects.filter(email=email).exists()
ConcExists(p) ==
    /\ pc[p] = "exists"
    /\ LET found == FilterEmail(users, loc[p].email) # {}
       IN  /\ loc' = [loc EXCEPT ![p].user = found]
           /\ pc' = [pc EXCEPT ![p] = IF found THEN "update" ELSE "create"]
    /\ UNCHANGED <<users, mail_count, last_mail, resp, contentvars>>

\* Lines 125-126: User.objects.create_user(email=email). When a row with the
\* email has appeared since line 124, the insert either violates a unique
\* index on email (IntegrityError, a 500) or adds a second row: which one
\* depends on the declaration of User.email, so both are outcomes.
ConcCreate(p, unique) ==
    /\ pc[p] = "create"
    /\ IF FilterEmail(users, loc[p].email) # {} /\ unique
       THEN /\ Finish(p, 500, 126)
            /\ UNCHANGED users
       ELSE /\ users' = create_user(users, loc[p].email)
            /\ pc' = [pc EXCEPT ![p] = "update"]
            /\ UNCHANGED loc
    /\ UNCHANGED <<mail_count, last_mail, resp, contentvars>>

\* Lines 128-134: filter(email=email).update(confirmation_code=...)
ConcUpdate(p) ==
    /\ pc[p] = "update"
    /\ users' = update(users, loc[p].email, make_password(loc[p].code))
    /\ pc' = [pc EXCEPT ![p] = "mail"]
    /\ UNCHANGED <<mail_count, last_mail, resp, loc, contentvars>>

\* Lines 136-143: send_mail, then the 200.
ConcMail(p, mail_ok) ==
    /\ pc[p] = "mail"
    /\ IF mail_ok
       THEN /\ mail_count' = mail_count + 1
            /\ last_mail' = [to |-> loc[p].email, code |-> loc[p].code]
            /\ Finish(p, 200, 140)
       ELSE /\ UNCHANGED <<mail_count, last_mail>>
            /\ Finish(p, 500, 138)
    /\ UNCHANGED <<users, resp, contentvars>>

\* ------------------------------------------- titles, reviews and comments
\* A comment's text: required by CommentSerializer.
MissingText == ""
Texts == {"text"}

\* CommentSerializer(data=request.data).is_valid()
CommentSerializer_is_valid(body) == body.text \in Texts

\* TitleViewSet.create: a new Title row with the next id.
TitleCreate ==
    /\ Cardinality(titles) < MaxTitles
    /\ titles' = titles \cup {Cardinality(titles) + 1}
    /\ resp' = Response("title_create", 201, 36, <<>>, Cardinality(titles) + 1)
    /\ UNCHANGED <<authvars, concvars, reviews, comments>>

\* ReviewViewSet.perform_create, lines 86-89. Of a Review row only the title
\* is kept: nothing here reads its author, score or text.
ReviewCreate(title_id) ==
    /\ Len(reviews) < MaxReviews
    /\ IF title_id \in titles
       THEN /\ reviews' = Append(reviews, [title |-> title_id])
            /\ resp' = Response("review_create", 201, 89, <<>>, Len(reviews) + 1)
       ELSE /\ reviews' = reviews
            /\ resp' = Response("review_create", 404, 87, <<>>, <<>>)
    /\ UNCHANGED <<authvars, concvars, titles, comments>>

\* get_object_or_404(Review.objects.filter(title_id=title_id), pk=review_id):
\* whether the lookup finds the review (lines 58-61 and 67-70).
ReviewFound(rs, title_id, review_id) ==
    review_id \in DOMAIN rs /\ rs[review_id].title = title_id

\* review.comments.all(): the ids of the review's comments.
ReviewComments(cs, review_id) == {i \in DOMAIN cs : cs[i].review = review_id}

\* CommentViewSet.list over get_queryset, lines 55-62.
CommentList(title_id, review_id) ==
    /\ resp' = IF ReviewFound(reviews, title_id, review_id)
               THEN Response("comment_list", 200, 62, <<>>,
                             ReviewComments(comments, review_id))
               ELSE Response("comment_list", 404, 58, <<>>, <<>>)
    /\ UNCHANGED <<authvars, concvars, contentvars>>

serializer_save_body_wins(body, author, review) ==
    [text |-> body.text,
     author |-> IF body.author # Anonymous THEN body.author ELSE author,
     review |-> review]

\* serializer.save(author=self.request.user, review=review), line 71: the
\* keyword arguments override what the body carried.
serializer_save(body, author, review) ==
    [text |-> body.text, author |-> author, review |-> review]

\* CommentViewSet.create: the inherited create validates the body
\* (is_valid(raise_exception=True)) and then calls perform_create, lines
\* 64-71. user is request.user, an authenticated user.
CommentCreate(user, title_id, review_id, body) ==
    /\ Len(comments) < MaxComments
    /\ IF ~CommentSerializer_is_valid(body)
       THEN /\ comments' = comments
            /\ resp' = Response("comment_create", 400, 64, <<>>, <<>>)
       ELSE IF ~ReviewFound(reviews, title_id, review_id)
       THEN /\ comments' = comments
            /\ resp' = Response("comment_create", 404, 67, <<>>, <<>>)
       ELSE /\ comments' = Append(comments, serializer_save(body, user, review_id))
            /\ resp' = Response("comment_create", 201, 71, <<>>, Len(comments) + 1)
    /\ UNCHANGED <<authvars, concvars, titles, reviews>>

\* ----------------------------------------------------------- specifications
Init ==
    /\ users = <<>>
    /\ mail_count = 0
    /\ last_mail = NoMail
    /\ resp = NoResponse
    /\ pc = [p \in Procs |-> "idle"]
    /\ loc = [p \in Procs |-> NoRequest]
    /\ titles = {}
    /\ reviews = <<>>
    /\ comments = <<>>

\* The confirmation-code flow, one request at a time.
Next ==
    \/ \E e \in EmailInputs, c \in Codes, ok \in BOOLEAN :
          SendConfirmationCode([email |-> e], c, ok)
    \/ \E e \in EmailInputs, c \in CodeInputs :
          GetJwtToken([email |-> e, confirmation_code |-> c])

Spec == Init /\ [][Next]_vars

\* The /me endpoint, with the users send_confirmation_code registers (the
\* code that is mailed plays no part here, so one is enough).
SomeCode == CHOOSE c \in Codes : TRUE

NextMe ==
    \/ \E e \in Emails : SendConfirmationCode([email |-> e], SomeCode, TRUE)
    \/ \E u \in DOMAIN users \cup {Anonymous} : APIUserGet(u)
    \/ \E u \in DOMAIN users \cup {Anonymous}, b \in BioInputs, e \in EmailInputs :
          APIUserPatch(u, [bio |-> b, email |-> e])

SpecMe == Init /\ [][NextMe]_vars

\* Each worker serves one send_confirmation_code request; the statements of
\* the workers interleave, as do get_jwt_token requests.
NextConc ==
    \/ \E p \in Procs, e \in EmailInputs, c \in Codes : ConcStart(p, [email |-> e], c)
    \/ \E p \in Procs : ConcExists(p)
    \/ \E p \in Procs, unique \in BOOLEAN : ConcCreate(p, unique)
    \/ \E p \in Procs : ConcUpdate(p)
    \/ \E p \in Procs, ok \in BOOLEAN : ConcMail(p, ok)
    \/ \E e \in EmailInputs, c \in CodeInputs :
          GetJwtToken([email |-> e, confirmation_code |-> c])

SpecConc == Init /\ [][NextConc]_vars

\* Titles, reviews and comments, requested by two registered users.
InitComments ==
    LET r1 == SendCodeResult(<<>>, 0, NoMail, [email |-> 1], SomeCode, TRUE)
        r2 == SendCodeResult(r1.users, r1.mail_count, r1.last_mail,
                             [email |-> 2], SomeCode, TRUE)
    IN  /\ users = r2.users
        /\ mail_count = r2.mail_count
        /\ last_mail = r2.last_mail
        /\ resp = r2.resp
        /\ pc = [p \in Procs |-> "idle"]
        /\ loc = [p \in Procs |-> NoRequest]
        /\ titles = {}
        /\ reviews = <<>>
        /\ comments = <<>>

TitleIds == 1..MaxTitles
ReviewIds == 1..MaxReviews
CommentBodies == [text : Texts \cup {MissingText}, author : DOMAIN users \cup {Anonymous}]

NextComments ==
    \/ TitleCreate
    \/ \E t \in TitleIds : ReviewCreate(t)
    \/ \E t \in TitleIds, r \in ReviewIds : CommentList(t, r)
    \/ \E u \in DOMAIN users, t \in TitleIds, r \in ReviewIds, b \in CommentBodies :
          CommentCreate(u, t, r, b)

SpecComments == InitComments /\ [][NextComments]_vars

\* ------------------------------------------------------------------- claims
\* What a get_jwt_token request with this email and code would answer now.
JwtStatus(us, email, code) ==
    GetJwtResult(us, [email |-> email, confirmation_code |-> code]).resp.status

\* The stored value is the hash of this code.
IsHashOf(encoded, code) == encoded = make_password(code)

SendStep == resp'.op = "send_confirmation_code"
JwtStep == resp'.op = "get_jwt_token"
MailsUnchanged == mail_count' = mail_count /\ last_mail' = last_mail

\* C1: once get_jwt_token(e, c) has returned 200 with a token, a later
\* get_jwt_token(e, c), with no send_confirmation_code(e) in between, does
\* not return a token: right after the 200 the same request is refused.
C1_OneTimeCode ==
    [][(JwtStep /\ resp'.status = 200)
          => JwtStatus(users', resp'.req.email, resp'.req.code) # 200]_vars

\* C2: get_jwt_token answers 200 with a token exactly when the request is
\* valid, a user with the email exists and the code matches that user's
\* stored hash; a wrong code for an existing user gets 400 (line 167), an
\* unknown email 404, an invalid request 400, none of them with a token.
C2_TokenOnlyOnMatch ==
    resp.op = "get_jwt_token" =>
        LET e == resp.req.email
            c == resp.req.code
            valid == e \in Emails /\ c \in Codes
            found == {i \in DOMAIN users : users[i].email = e}
            match == {i \in found : IsHashOf(users[i].confirmation_code, c)}
        IN  /\ resp.status = 200 <=> (valid /\ match # {})
            /\ resp.status = 200 => \E i \in match : resp.out = [user_id |-> i]
            /\ resp.status # 200 => resp.out = NoToken
            /\ (valid /\ found # {} /\ match = {}) => (resp.status = 400 /\ resp.ret = 167)
            /\ (valid /\ found = {}) => resp.status = 404
            /\ ~valid => (resp.status = 400 /\ resp.ret = 172)

C2_Witness ==
    /\ resp.op = "get_jwt_token"
    /\ resp.status = 200
    /\ resp.out # NoToken
    /\ Len(users) = 2

\* C3: send_confirmation_code with a valid email creates exactly one user
\* when none has the email and none otherwise; when it answers 200 there is
\* one user with the email (if there was at most one), that user's stored
\* code is the hash of the code mailed to the address, and users with other
\* emails are unchanged.
C3_ExistsCreate ==
    [][(SendStep /\ resp'.req.email \in Emails) =>
          LET e == resp'.req.email
              before == {i \in DOMAIN users : users[i].email = e}
              after == {i \in DOMAIN users' : users'[i].email = e}
          IN  /\ before = {} => (Len(users') = Len(users) + 1 /\ Cardinality(after) = 1)
              /\ before # {} => Len(users') = Len(users)
              /\ resp'.status = 200 =>
                    /\ Cardinality(before) <= 1 => Cardinality(after) = 1
                    /\ mail_count' = mail_count + 1
                    /\ last_mail'.to = e
                    /\ \A i \in after :
                          IsHashOf(users'[i].confirmation_code, last_mail'.code)
                    /\ \A i \in DOMAIN users :
                          users[i].email # e => users'[i] = users[i]]_vars

C3_Witness ==
    /\ resp.op = "send_confirmation_code"
    /\ resp.status = 200
    /\ Len(users) = 2
    /\ users[1].email = resp.req.email
    /\ users[2].confirmation_code # users[1].confirmation_code

\* C4: however the statements of two concurrent send_confirmation_code
\* requests for the same, previously unknown email interleave (send_mail not
\* failing), both requests end with 200, exactly one user has the email, and
\* the code of the mail sent last is the one get_jwt_token accepts.
C4_NoConcurrencyConcerns ==
    LET e == loc[1].email
    IN  (/\ \A p \in Procs : pc[p] = "done" /\ loc[p].email = e /\ loc[p].ret # 138
         /\ e \in Emails)
        => /\ \A p \in Procs : loc[p].status = 200
           /\ Cardinality(FilterEmail(users, e)) = 1
           /\ last_mail.to = e
           /\ JwtStatus(users, e, last_mail.code) = 200

\* C5: a get_jwt_token that fails (400 or 404) leaves the users, their
\* stored codes and the outbox unchanged, so every code that was accepted
\* before the failed attempt is still accepted after it.
C5_FailedAttemptKeepsCode ==
    [][(JwtStep /\ resp'.status \in {400, 404}) =>
          /\ users' = users
          /\ MailsUnchanged
          /\ \A e \in Emails, c \in Codes :
                JwtStatus(users, e, c) = 200 => JwtStatus(users', e, c) = 200]_vars

C5_Witness ==
    /\ resp.op = "get_jwt_token"
    /\ resp.status = 400
    /\ resp.ret = 167
    /\ last_mail.to = resp.req.email
    /\ JwtStatus(users, last_mail.to, last_mail.code) = 200

\* C6: send_confirmation_code with a missing or malformed email answers 400
\* from the raising is_valid (line 119) and creates no user, changes no
\* stored code and sends no mail; the return at line 145 is never reached.
C6_InvalidSendHasNoEffect ==
    [][SendStep =>
          /\ resp'.ret # 145
          /\ resp'.req.email \notin Emails =>
                /\ resp'.status = 400
                /\ users' = users
                /\ MailsUnchanged]_vars

C6_Witness ==
    /\ resp.op = "send_confirmation_code"
    /\ resp.req.email = MalformedEmail
    /\ resp.status = 400
    /\ Len(users) > 0

\* C8: a completed send_confirmation_code for e with code c2 makes c2 the
\* only code accepted for e: get_jwt_token(e, c2) answers 200 and every
\* other code, an earlier one included, gets 400; at any time at most one
\* code per email is accepted.
C8_NewCodeSupersedes ==
    /\ [][(SendStep /\ resp'.status = 200) =>
             \A c \in Codes :
                JwtStatus(users', resp'.req.email, c)
                    = IF c = resp'.req.code THEN 200 ELSE 400]_vars
    /\ [](\A e \in Emails :
             Cardinality({c \in Codes : JwtStatus(users, e, c) = 200}) <= 1)

C8_Witness ==
    /\ resp.op = "get_jwt_token"
    /\ resp.status = 400
    /\ resp.ret = 167
    /\ mail_count = 2
    /\ Len(users) = 1
    /\ last_mail.code # resp.req.code
    /\ JwtStatus(users, resp.req.email, last_mail.code) = 200

\* C9: when a mail carrying code c goes out to e, a user with email e
\* exists and holds the hash of c; when send_mail fails (500) the user and
\* the new hash are in place all the same and no mail went out.
C9_StoredBeforeMailed ==
    /\ [][mail_count' # mail_count =>
             \E i \in DOMAIN users' :
                /\ users'[i].email = last_mail'.to
                /\ IsHashOf(users'[i].confirmation_code, last_mail'.code)]_vars
    /\ [][(SendStep /\ resp'.status = 500) =>
             /\ MailsUnchanged
             /\ \E i \in DOMAIN users' :
                   /\ users'[i].email = resp'.req.email
                   /\ IsHashOf(users'[i].confirmation_code, resp'.req.code)]_vars

C9_Witness ==
    /\ resp.op = "send_confirmation_code"
    /\ resp.status = 500
    /\ mail_count = 0
    /\ Len(users) = 1
    /\ IsHashOf(users[1].confirmation_code, resp.req.code)

\* C7: /me answers an unauthenticated request with 401 and changes nothing;
\* a get returns the requester's own record; a patch with valid data answers
\* 200 and leaves every other user's record unchanged; a patch with invalid
\* data answers 400 and leaves every record unchanged.
C7_MeTouchesOnlyRequester ==
    [][resp'.op \in {"me_get", "me_patch"} =>
          LET u == resp'.req.user
          IN  /\ MailsUnchanged
              /\ u = Anonymous => (resp'.status = 401 /\ users' = users)
              /\ (u # Anonymous /\ resp'.op = "me_get") =>
                    /\ resp'.status = 200
                    /\ users' = users
                    /\ resp'.out = [id |-> u, email |-> users[u].email, bio |-> users[u].bio]
              /\ (u # Anonymous /\ resp'.op = "me_patch") =>
                    /\ resp'.status \in {200, 400}
                    /\ resp'.status = 200 <=> UserSerializer_is_valid(users, u, resp'.req.data)
                    /\ resp'.status = 200 =>
                          /\ DOMAIN users' = DOMAIN users
                          /\ \A i \in DOMAIN users : i # u => users'[i] = users[i]
                    /\ resp'.status = 400 => users' = users]_vars

C7_Witness ==
    /\ resp.op = "me_patch"
    /\ resp.status = 200
    /\ Len(users) = 2
    /\ resp.req.user = 1
    /\ users[1].bio \in Bios
    /\ users[2].bio = BlankBio

\* C10 as stated: listing returns exactly the comments of review review_id
\* and only when that review belongs to title title_id; a created comment
\* has author = the requesting user and review = that review whatever the
\* body says; when no such review exists, listing and creation both answer
\* 404 and no comment is created.
C10_CommentsScoped_Original ==
    [][/\ \A t \in TitleIds, r \in ReviewIds :
             CommentList(t, r) =>
                IF ReviewFound(reviews, t, r)
                THEN /\ resp'.status = 200
                     /\ resp'.out = {i \in DOMAIN comments : comments[i].review = r}
                ELSE resp'.status = 404
       /\ \A u \in DOMAIN users, t \in TitleIds, r \in ReviewIds, b \in CommentBodies :
             CommentCreate(u, t, r, b) =>
                /\ Len(comments') > Len(comments) =>
                      /\ comments'[Len(comments')].author = u
                      /\ comments'[Len(comments')].review = r
                      /\ ReviewFound(reviews, t, r)
                /\ ~ReviewFound(reviews, t, r) =>
                      (resp'.status = 404 /\ comments' = comments)]_vars

\* C10, amended: as above, but creation answers 404 for a missing review
\* only when the body is valid: an invalid body is refused with 400 before
\* the review is looked up. Either way no comment is created.
C10_CommentsScoped ==
    [][/\ \A t \in TitleIds, r \in ReviewIds :
             CommentList(t, r) =>
                /\ comments' = comments
                /\ IF ReviewFound(reviews, t, r)
                   THEN /\ resp'.status = 200
                        /\ resp'.out = {i \in DOMAIN comments : comments[i].review = r}
                   ELSE resp'.status = 404
       /\ \A u \in DOMAIN users, t \in TitleIds, r \in ReviewIds, b \in CommentBodies :
             CommentCreate(u, t, r, b) =>
                /\ Len(comments') > Len(comments) =>
                      /\ Len(comments') = Len(comments) + 1
                      /\ comments'[Len(comments')].author = u
                      /\ comments'[Len(comments')].review = r
                      /\ ReviewFound(reviews, t, r)
                      /\ \A i \in DOMAIN comments : comments'[i] = comments[i]
                /\ ~ReviewFound(reviews, t, r) =>
                      /\ comments' = comments
                      /\ resp'.status = IF CommentSerializer_is_valid(b) THEN 404 ELSE 400]_vars

\* A comment by user 1 exists on review 2, and the listing of another
\* review answers 200 without it.
C10_Witness ==
    /\ Len(reviews) = 2
    /\ Len(comments) = 1
    /\ comments[1].author = 1
    /\ comments[1].review = 2
    /\ resp.op = "comment_list"
    /\ resp.status = 200
    /\ resp.out = {}

====
